---- MODULE Spec2Model ----
(***************************************************************************)
(* Model of app.py: the Instagram webhook receiver.                        *)
(*                                                                         *)
(* Strings whose characters matter (message and comment texts, keywords,   *)
(* reply templates, user names) are sequences of one-character strings, so *)
(* that lower(), the `in` substring test and replace() are computed.       *)
(* Identifiers are plain strings; "" is an absent (or empty, hence falsy)  *)
(* JSON field.  Timestamps are small integers; 0 is an absent timestamp.   *)
(* raw_payload columns are left out of the rows (opaque copies of input).  *)
(***************************************************************************)
EXTENDS Integers, Sequences, FiniteSets, TLC

\* ------------------------------------------------------------------ bounds
\* entries delivered to POST /webhook over a run, in one payload or several
MaxEntries == 3

\* ----------------------------------------------------- string primitives
UPPER == <<"A","B","C","D","E","F","G","H","I","J","K","L","M",
           "N","O","P","Q","R","S","T","U","V","W","X","Y","Z">>
LOWER == <<"a","b","c","d","e","f","g","h","i","j","k","l","m",
           "n","o","p","q","r","s","t","u","v","w","x","y","z">>

\* a mutant of lower(): the identity (a case-sensitive comparison)
lower_identity(s) == s

\* str.lower()
lower(s) ==
    [i \in 1..Len(s) |->
        IF \E k \in 1..Len(UPPER) : UPPER[k] = s[i]
        THEN LOWER[CHOOSE k \in 1..Len(UPPER) : UPPER[k] = s[i]]
        ELSE s[i]]

\* the Python test `sub in s` on strings
Contains(sub, s) ==
    \E i \in 0..(Len(s) - Len(sub)) : SubSeq(s, i + 1, i + Len(sub)) = sub

\* str.replace(pat, rep) for a non-empty pat: leftmost, non-overlapping
RECURSIVE replace(_, _, _)
replace(s, pat, rep) ==
    IF Len(s) < Len(pat) THEN s
    ELSE IF SubSeq(s, 1, Len(pat)) = pat
         THEN rep \o replace(SubSeq(s, Len(pat) + 1, Len(s)), pat, rep)
         ELSE <<s[1]>> \o replace(Tail(s), pat, rep)

USERNAME_PLACEHOLDER == <<"{","u","s","e","r","n","a","m","e","}">>

\* ------------------------------------------------------- configuration
VERIFY_TOKEN == "secret"

INSTAGRAM_ACCOUNTS_CONFIG ==
    << [page_id |-> "P1", page_access_token |-> "T1"],
       [page_id |-> "P2", page_access_token |-> "T2"] >>

\* Contents of reel_keywords.json that the process may have loaded.  A
\* table is a function from keys to {keywords, private_reply_message}.
T_link == <<"L","i","n","k">>
T_info == <<"I","n","f","o">>
T_promo == <<"p","r","o","m","o">>
Tpl_M1 == <<"H","i"," ">> \o USERNAME_PLACEHOLDER \o <<"!">>
Tpl_Default == <<"D","M"," ","s","e","n","t">>

FullTable ==
    [k \in {"M1", "M3", "DEFAULT_KEYWORDS"} |->
        CASE k = "M1" -> [keywords |-> <<T_promo>>, private_reply_message |-> Tpl_M1]
          [] k = "M3" -> [keywords |-> <<T_link>>, private_reply_message |-> <<>>]
          [] OTHER    -> [keywords |-> <<T_promo, T_info, T_link>>,
                          private_reply_message |-> Tpl_Default]]

NoDefaultTable ==
    [k \in {"M1"} |-> [keywords |-> <<T_promo>>, private_reply_message |-> Tpl_M1]]

RuleTables == {FullTable, NoDefaultTable}

\* ------------------------------------------------------------- variables
VARIABLES
    REEL_KEYWORDS,  \* the rule table loaded at startup
    users,          \* User rows, in insertion order (id = position)
    messages,       \* Message rows
    comments,       \* Comment rows
    outbox,         \* history: the Graph API calls of the request, with their outcome
    payload,        \* data["entry"] of the request being handled
    pc,             \* "idle" | "entry" | "sub" | "done"
    ei,             \* index of the entry the for loop is at
    si,             \* index of the sub-event the inner loop is at
    token,          \* current_page_access_token of the entry
    response,       \* HTTP status of handle_webhook: 0 none yet, 200, 400, 500
    err,            \* the exception that ended the handler, "" if none
    visited,        \* history: <<entry, sub-event>> positions the handler handled
    last,           \* history: what the last sub-event step did
    dmSeen,         \* history: inbound text DMs handled, per scoped id
    delivered,      \* history: number of entries received so far
    verify,         \* last GET request and its response
    workers         \* concurrent deliveries: each worker's request and position

vars == <<REEL_KEYWORDS, users, messages, comments, outbox, payload, pc, ei, si,
          token, response, err, visited, last, dmSeen, delivered, verify, workers>>

\* ------------------------------------------------- the webhook payloads
\* A messaging sub-event.  sender = "" : no "sender" key.  recipient = "" :
\* no (or an empty) "recipient"; "NOID" : a recipient object without "id".
\* text = <<>> : no message text.  postback = "" : no postback.
MsgEvent(sender, recipient, text, is_echo, postback) ==
    [sender |-> sender, recipient |-> recipient, text |-> text,
     is_echo |-> is_echo, postback |-> postback, timestamp |-> 1]

\* A change.  has_value = FALSE : no "value".  For field "comments": id,
\* text, media_id, from_id are "" / <<>> when absent, has_username tells
\* whether from.username is there, created_time = 0 when absent.  For field
\* "mentions": item_type is item.media_type ("" : no item), has_user tells
\* whether value.user is there.
CommentChange(id, text, media_id, from_id, has_username, username, created_time, page_id) ==
    [field |-> "comments", has_value |-> TRUE, id |-> id, text |-> text,
     media_id |-> media_id, from_id |-> from_id, has_username |-> has_username,
     username |-> username, created_time |-> created_time, page_id |-> page_id,
     item_type |-> "", has_user |-> FALSE]

MentionChange(item_type, has_user, has_value) ==
    [field |-> "mentions", has_value |-> has_value, id |-> "", text |-> <<>>,
     media_id |-> "", from_id |-> "", has_username |-> FALSE,
     username |-> <<>>, created_time |-> 0, page_id |-> "",
     item_type |-> item_type, has_user |-> has_user]

Entry(id, messaging, changes) ==
    [id |-> id, messaging |-> messaging, changes |-> changes]

X_hi == <<"O","h"," ","h","i">>
X_help == <<"H","E","L","P">>
X_other == <<"y","o">>
X_LINK == <<"t","h","e"," ","L","I","N","K">>
X_nice == <<"n","i","c","e">>
N_bob == <<"b","o","b">>

DM_A_hi == MsgEvent("A", "P1", X_hi, FALSE, "")
DM_A_help == MsgEvent("A", "P1", X_help, FALSE, "")
DM_nosender == MsgEvent("", "P2", X_hi, FALSE, "")
Echo_A == MsgEvent("A", "P2", X_other, TRUE, "")
PB_A == MsgEvent("A", "P2", <<>>, FALSE, "buy")
DM_noid == MsgEvent("A", "NOID", X_hi, FALSE, "")

Cm_M1_link == CommentChange("c1", X_LINK, "M1", "U", TRUE, N_bob, 1, "P2")
Cm_M2_link == CommentChange("c2", X_LINK, "M2", "U", TRUE, N_bob, 1, "P2")
Cm_M2_nice == CommentChange("c3", X_nice, "M2", "V", TRUE, N_bob, 1, "P2")
Cm_M3_link == CommentChange("c4", X_LINK, "M3", "V", TRUE, N_bob, 1, "")
Cm_M1_noname == CommentChange("c5", X_nice, "M1", "U", FALSE, <<>>, 1, "")
Cm_nomedia == CommentChange("c6", X_LINK, "", "U", TRUE, N_bob, 1, "")
Cm_nomedia_notime == CommentChange("c7", X_LINK, "", "U", TRUE, N_bob, 0, "")
Mn_story == MentionChange("STORY", TRUE, TRUE)
Mn_image_nouser == MentionChange("IMAGE", FALSE, TRUE)
Mn_novalue == MentionChange("", FALSE, FALSE)

CatalogueOfEntries ==
    { Entry("", <<Echo_A, DM_A_hi, DM_nosender, DM_A_help>>, <<>>),
      Entry("P1", <<PB_A, DM_A_help>>, <<>>),
      Entry("", <<>>, <<>>),
      Entry("P9", <<DM_A_hi>>, <<>>),
      Entry("", <<DM_noid>>, <<>>),
      Entry("P1", <<>>, <<Cm_M1_link, Cm_M1_noname>>),
      Entry("", <<>>, <<Cm_M2_link, Cm_M2_nice, Mn_image_nouser>>),
      Entry("P2", <<>>, <<Mn_novalue, Cm_nomedia, Cm_M3_link, Mn_story, Cm_nomedia_notime>>) }

\* data["entry"] of a POST with n entries; n = 0 stands for a body without a
\* usable "entry"
Payloads(n) == [1..n -> CatalogueOfEntries]

\* a GET parameter: "ABSENT" is a parameter that is not in the query string,
\* "" one that is there with an empty value
Modes == {"ABSENT", "", "subscribe", "unsubscribe"}
Tokens == {"ABSENT", "", "secret", "wrong"}
Challenges == {"ABSENT", "", "1158201444", "subscribe", "secret", "0", "x"}

\* ---------------------------------------------------- webhook verification
verify_webhook_no_mode(mode, tok, challenge) ==
    IF mode \in {"ABSENT", ""} \/ tok \in {"ABSENT", ""} \/ challenge \in {"ABSENT", ""}
    THEN [status |-> 400, body |-> "Missing parameters"]
    ELSE IF tok = VERIFY_TOKEN
         THEN [status |-> 200, body |-> challenge]
         ELSE [status |-> 403, body |-> "Verification token mismatch"]

\* verify_webhook: `not all([mode, token, challenge])` is true for a
\* parameter that is absent (None) and for one that is the empty string
verify_webhook(mode, tok, challenge) ==
    IF mode \in {"ABSENT", ""} \/ tok \in {"ABSENT", ""} \/ challenge \in {"ABSENT", ""}
    THEN [status |-> 400, body |-> "Missing parameters"]
    ELSE IF mode = "subscribe" /\ tok = VERIFY_TOKEN
         THEN [status |-> 200, body |-> challenge]
         ELSE [status |-> 403, body |-> "Verification token mismatch"]

\* ------------------------------------------------------ account resolution
\* a mutant of the resolution: the recipient of the first messaging
\* sub-event is preferred to the id of the entry
recipient_page_id_recipient_first(entry) ==
    IF entry.messaging # <<>> /\ entry.messaging[1].recipient \notin {"", "NOID"}
    THEN [page |-> entry.messaging[1].recipient, raised |-> ""]
    ELSE IF entry.id # ""
    THEN [page |-> entry.id, raised |-> ""]
    ELSE IF entry.changes # <<>> /\ entry.changes[1].has_value
    THEN [page |-> entry.changes[1].page_id, raised |-> ""]
    ELSE [page |-> "", raised |-> ""]

\* lines 291-299: the page id of an entry; raised = "KeyError" when
\* messaging[0]["recipient"] has no "id"
recipient_page_id(entry) ==
    IF entry.id # ""
    THEN [page |-> entry.id, raised |-> ""]
    ELSE IF entry.messaging # <<>>
    THEN IF entry.messaging[1].recipient = ""
         THEN [page |-> "", raised |-> ""]
         ELSE IF entry.messaging[1].recipient = "NOID"
              THEN [page |-> "", raised |-> "KeyError"]
              ELSE [page |-> entry.messaging[1].recipient, raised |-> ""]
    ELSE IF entry.changes # <<>>
    THEN IF entry.changes[1].has_value /\ entry.changes[1].page_id # ""
         THEN [page |-> entry.changes[1].page_id, raised |-> ""]
         ELSE [page |-> "", raised |-> ""]
    ELSE [page |-> "", raised |-> ""]

\* lines 306-316: the access token of the first account with that page id,
\* "" when no account matches
current_page_access_token(page) ==
    LET hits == {i \in 1..Len(INSTAGRAM_ACCOUNTS_CONFIG) :
                    INSTAGRAM_ACCOUNTS_CONFIG[i].page_id = page}
    IN  IF hits = {} THEN ""
        ELSE INSTAGRAM_ACCOUNTS_CONFIG[CHOOSE i \in hits : \A j \in hits : i <= j].page_access_token

\* --------------------------------------------------------------- the store
NOW == 9    \* datetime.utcnow, the column default

\* User.query.filter_by(psid=...).first(): the id of the row, 0 when none
find_user_by_psid_none(usrs, psid) == 0

find_user_by_psid(usrs, psid) ==
    LET hits == {i \in 1..Len(usrs) : usrs[i].psid = psid}
    IN  IF hits = {} THEN 0 ELSE CHOOSE i \in hits : \A j \in hits : i <= j

\* User.query.filter_by(instagram_id=...).first()
find_user_by_instagram_id(usrs, ig) ==
    LET hits == {i \in 1..Len(usrs) : usrs[i].instagram_id = ig}
    IN  IF hits = {} THEN 0 ELSE CHOOSE i \in hits : \A j \in hits : i <= j

\* a mutant: the users table without its unique constraints
UserInsertAllowed_unconstrained(usrs, row) == TRUE

\* the unique constraints of User.psid and User.instagram_id (NULLs exempt)
UserInsertAllowed(usrs, row) ==
    /\ row.psid # "" => \A i \in 1..Len(usrs) : usrs[i].psid # row.psid
    /\ row.instagram_id # "" => \A i \in 1..Len(usrs) : usrs[i].instagram_id # row.instagram_id

\* a mutant: the comments table without its unique constraint
CommentInsertAllowed_unconstrained(cms, row) == TRUE

\* the unique constraint of Comment.comment_id
CommentInsertAllowed(cms, row) ==
    \A i \in 1..Len(cms) : cms[i].comment_id # row.comment_id

UserRow(id, psid, ig, name, created) ==
    [id |-> id, psid |-> psid, instagram_id |-> ig, instagram_username |-> name,
     created_at |-> created, last_interaction_at |-> NOW]

MessageRow(id, user_id, type, text) ==
    [id |-> id, user_id |-> user_id, message_type |-> type, message_text |-> text]

CommentRow(id, user_id, comment_id, media_id, text) ==
    [id |-> id, user_id |-> user_id, comment_id |-> comment_id,
     media_id |-> media_id, comment_text |-> text]

\* -------------------------------------------------------- outbound sends
\* what requests.post / raise_for_status did: a 2xx answer, a non-2xx
\* answer (HTTPError), or no answer at all (ConnectionError, Timeout)
SendOutcomes == {"ok", "http_error", "transport_error"}

\* a mutant of send_instagram_message: the outbound row is written whether
\* or not the recipient is a known user
send_instagram_message_logs_unknown(msgs, usrs, recipient_psid, message_text, page_id, tok, outcome) ==
    LET uid == find_user_by_psid(usrs, recipient_psid)
    IN  [messages |-> IF outcome = "ok"
                      THEN Append(msgs, MessageRow(Len(msgs) + 1, uid, "outbound_dm", message_text))
                      ELSE msgs,
         call |-> [api |-> "messages", target |-> page_id, recipient |-> recipient_psid,
                   text |-> message_text, access_token |-> tok, outcome |-> outcome],
         raised |-> IF outcome = "transport_error" THEN "UnboundLocalError" ELSE ""]

\* send_instagram_message.  On "transport_error" requests.post raises before
\* `response` is bound, and the except block's `if response is not None`
\* raises UnboundLocalError out of the function.
send_instagram_message(msgs, usrs, recipient_psid, message_text, page_id, tok, outcome) ==
    LET uid == find_user_by_psid(usrs, recipient_psid)
    IN  [messages |-> IF outcome = "ok" /\ uid # 0
                      THEN Append(msgs, MessageRow(Len(msgs) + 1, uid, "outbound_dm", message_text))
                      ELSE msgs,
         call |-> [api |-> "messages", target |-> page_id, recipient |-> recipient_psid,
                   text |-> message_text, access_token |-> tok, outcome |-> outcome],
         raised |-> IF outcome = "transport_error" THEN "UnboundLocalError" ELSE ""]

\* send_instagram_private_reply_to_comment
send_instagram_private_reply_to_comment(msgs, comment_id, message_text, tok, outcome) ==
    [messages |-> IF outcome = "ok"
                  THEN Append(msgs, MessageRow(Len(msgs) + 1, 0, "private_reply_comment", message_text))
                  ELSE msgs,
     call |-> [api |-> "private_replies", target |-> comment_id, recipient |-> "",
               text |-> message_text, access_token |-> tok, outcome |-> outcome],
     raised |-> IF outcome = "transport_error" THEN "UnboundLocalError" ELSE ""]

\* check_if_user_follows_page: the placeholder returns True
check_if_user_follows_page(instagram_user_id, tok) == TRUE

\* ------------------------------------------------------------ reply texts
W_hello == <<"h","e","l","l","o">>
W_hi == <<"h","i">>
W_help == <<"h","e","l","p">>
W_products == <<"p","r","o","d","u","c","t","s">>

\* lines 355-362: the reply to an inbound DM
response_message(message_text, instagram_username) ==
    LET message_text_lower == lower(message_text)
    IN  IF Contains(W_hello, message_text_lower) \/ Contains(W_hi, message_text_lower)
        THEN <<"Hi there, ">>
             \o (IF instagram_username # <<>> THEN instagram_username ELSE <<"friend">>)
             \o <<"! How can I help you today?">>
        ELSE IF Contains(W_help, message_text_lower)
        THEN <<"I can help with common questions. Try asking about 'products' or 'support'.">>
        ELSE IF Contains(W_products, message_text_lower)
        THEN <<"We offer a range of exciting products! Visit our website to learn more: example.com">>
        ELSE <<"I'm a bot! I'm still learning. Try 'hello', 'help', or 'products'.">>

\* line 392
postback_reply(pb) == <<"You chose: ", pb, ". How else can I assist?">>

\* line 468; an absent username is formatted as "None"
non_follower_dm_message(has_username, username) ==
    <<"Hi @">> \o (IF has_username THEN username ELSE <<"None">>)
    \o <<", thanks for your comment! To get the link, please follow our page first. Once you follow, comment again or send us a DM, and we'll send it right over!">>

\* ---------------------------------------------------------- rule resolution
NoConfig == [key |-> "", keywords |-> <<>>, private_reply_message |-> <<>>]

\* REEL_KEYWORDS.get(key), tagged with the key; NoConfig for None
reel_config(table, key) ==
    IF key \in DOMAIN table
    THEN [key |-> key, keywords |-> table[key].keywords,
          private_reply_message |-> table[key].private_reply_message]
    ELSE NoConfig

\* lines 450-453: the for loop over the default keywords, from keyword i on
RECURSIVE keyword_scan(_, _, _)
keyword_scan(keywords, i, comment_text_lower) ==
    IF i > Len(keywords) THEN FALSE
    ELSE IF Contains(lower(keywords[i]), comment_text_lower) THEN TRUE
    ELSE keyword_scan(keywords, i + 1, comment_text_lower)

\* a mutant of the resolution: the default keywords are tried first
matched_reel_config_default_first(table, media_id, comment_text) ==
    LET default_keywords_config == reel_config(table, "DEFAULT_KEYWORDS")
    IN  IF keyword_scan(default_keywords_config.keywords, 1, lower(comment_text))
        THEN default_keywords_config
        ELSE reel_config(table, media_id)

\* a mutant of the resolution: the entry of the media wins only with a
\* non-empty template, and without one the default keywords are scanned
matched_reel_config_template_required(table, media_id, comment_text) ==
    LET by_media == reel_config(table, media_id)
        default_keywords_config == reel_config(table, "DEFAULT_KEYWORDS")
    IN  IF by_media.key # "" /\ by_media.private_reply_message # <<>> THEN by_media
        ELSE IF keyword_scan(default_keywords_config.keywords, 1, lower(comment_text))
             THEN default_keywords_config
             ELSE NoConfig

\* lines 442-453: the rule of a comment
matched_reel_config(table, media_id, comment_text) ==
    LET comment_text_lower == lower(comment_text)
        by_media == reel_config(table, media_id)
        default_keywords_config == reel_config(table, "DEFAULT_KEYWORDS")
    IN  IF by_media.key # "" THEN by_media
        ELSE IF keyword_scan(default_keywords_config.keywords, 1, comment_text_lower)
             THEN default_keywords_config
             ELSE NoConfig

\* ------------------------------------------------------------ the handler
NoLast == [kind |-> "none", ei |-> 0, si |-> 0, matched |-> "", sends |-> 0,
           outcome |-> "", raised |-> ""]

Step(kind, matched, sends, outcome, raised) ==
    [kind |-> kind, ei |-> ei, si |-> si, matched |-> matched, sends |-> sends,
     outcome |-> outcome, raised |-> raised]

PSIDs == {"A"}

\* the processes (or threads) of the WSGI server that run handle_webhook at
\* the same time, each with its own database session
Workers == {"w1", "w2"}

\* a worker between two requests
IdleWorker ==
    [pc |-> "idle", entry |-> Entry("", <<>>, <<>>), user_id |-> 0,
     response |-> 0, err |-> ""]

Init ==
    /\ REEL_KEYWORDS \in RuleTables
    /\ users = <<>> /\ messages = <<>> /\ comments = <<>> /\ outbox = <<>>
    /\ payload = <<>> /\ pc = "idle" /\ ei = 0 /\ si = 0 /\ token = ""
    /\ response = 0 /\ err = "" /\ visited = {} /\ last = NoLast
    /\ dmSeen = [p \in PSIDs |-> 0]
    /\ delivered = 0
    /\ verify = [mode |-> "ABSENT", token |-> "ABSENT", challenge |-> "ABSENT",
                 status |-> 0, body |-> ""]
    /\ workers = [w \in Workers |-> IdleWorker]

\* GET /webhook
VerifyWebhook ==
    /\ \E mode \in Modes, tok \in Tokens, challenge \in Challenges :
          LET r == verify_webhook(mode, tok, challenge)
          IN  verify' = [mode |-> mode, token |-> tok, challenge |-> challenge,
                         status |-> r.status, body |-> r.body]
    /\ UNCHANGED <<REEL_KEYWORDS, users, messages, comments, outbox, payload, pc, ei,
                   si, token, response, err, visited, last, dmSeen, delivered, workers>>

\* POST /webhook, lines 280-288: a request arrives once the previous one is
\* answered; a body without a non-empty "entry" is answered 400
ReceiveWebhook ==
    /\ pc \in {"idle", "done"}
    /\ \E n \in 0..(MaxEntries - delivered) : \E p \in Payloads(n) :
          /\ delivered' = delivered + n
          /\ payload' = p
          /\ IF p = <<>>
             THEN pc' = "done" /\ response' = 400 /\ ei' = 0
             ELSE pc' = "entry" /\ response' = 0 /\ ei' = 1
    /\ si' = 0 /\ token' = "" /\ err' = "" /\ visited' = {} /\ last' = NoLast
    /\ outbox' = <<>>
    /\ UNCHANGED <<REEL_KEYWORDS, users, messages, comments, dmSeen, verify, workers>>

\* an exception leaves handle_webhook: Flask answers 500
Raise(e) ==
    /\ pc' = "done" /\ response' = 500 /\ err' = e
    /\ UNCHANGED <<ei, si, token>>

\* the inner loop goes to the next sub-event, or the outer one to the next entry
Advance(n) ==
    /\ IF si < n
       THEN pc' = "sub" /\ si' = si + 1 /\ ei' = ei
       ELSE pc' = "entry" /\ si' = 0 /\ ei' = ei + 1
    /\ UNCHANGED <<response, err, token>>

\* lines 288-320: the head of one iteration of `for entry in data["entry"]`
ResolveEntry ==
    /\ pc = "entry" /\ ei <= Len(payload)
    /\ LET entry == payload[ei]
           r == recipient_page_id(entry)
           tok == current_page_access_token(r.page)
       IN  /\ visited' = visited \cup {<<ei, 0>>}
           /\ IF r.raised # ""
              THEN /\ Raise(r.raised)
                   /\ last' = Step("entry_error", "", 0, "", r.raised)
              ELSE IF r.page = "" \/ tok = ""
              THEN /\ pc' = "entry" /\ ei' = ei + 1 /\ si' = 0
                   /\ last' = Step("entry_skipped", "", 0, "", "")
                   /\ UNCHANGED <<response, err, token>>
              ELSE /\ token' = tok
                   /\ last' = Step("entry_resolved", "", 0, "", "")
                   /\ IF entry.messaging # <<>> \/ entry.changes # <<>>
                      THEN pc' = "sub" /\ si' = 1 /\ ei' = ei
                      ELSE pc' = "entry" /\ si' = 0 /\ ei' = ei + 1
                   /\ UNCHANGED <<response, err>>
    /\ UNCHANGED <<REEL_KEYWORDS, users, messages, comments, outbox, payload, dmSeen,
                   delivered, verify, workers>>

\* line 492: the loop is over
Respond ==
    /\ pc = "entry" /\ ei > Len(payload)
    /\ pc' = "done" /\ response' = 200
    /\ UNCHANGED <<REEL_KEYWORDS, users, messages, comments, outbox, payload, ei, si,
                   token, err, visited, last, dmSeen, delivered, verify, workers>>

InMessaging == pc = "sub" /\ payload[ei].messaging # <<>>
InChanges == pc = "sub" /\ payload[ei].messaging = <<>> /\ payload[ei].changes # <<>>

\* line 325
IsInboundText(ev) == ev.text # <<>> /\ ~ev.is_echo

\* line 322: messaging_event["sender"]["id"] of an event without sender
MessagingKeyError ==
    /\ InMessaging
    /\ payload[ei].messaging[si].sender = ""
    /\ visited' = visited \cup {<<ei, si>>}
    /\ Raise("KeyError")
    /\ last' = Step("messaging_error", "", 0, "", "KeyError")
    /\ UNCHANGED <<REEL_KEYWORDS, users, messages, comments, outbox, payload, dmSeen,
                   delivered, verify, workers>>

\* lines 325-365: an inbound text message
InboundDM ==
    /\ InMessaging
    /\ LET ev == payload[ei].messaging[si]
           page == recipient_page_id(payload[ei]).page
       IN  /\ ev.sender # "" /\ IsInboundText(ev)
           /\ \E outcome \in SendOutcomes :
                LET uid == find_user_by_psid(users, ev.sender)
                    newRow == UserRow(Len(users) + 1, ev.sender, "", <<>>, ev.timestamp)
                IN  IF uid = 0 /\ ~UserInsertAllowed(users, newRow)
                    THEN \* db.session.commit() raises IntegrityError
                         /\ outcome = "ok" /\ Raise("IntegrityError")
                         /\ last' = Step("dm", "", 0, "", "IntegrityError")
                         /\ UNCHANGED <<users, messages, outbox>>
                    ELSE LET users1 == IF uid = 0 THEN Append(users, newRow)
                                       ELSE [users EXCEPT ![uid].last_interaction_at = ev.timestamp]
                             user == IF uid = 0 THEN newRow ELSE users1[uid]
                             messages1 == Append(messages,
                                 MessageRow(Len(messages) + 1, user.id, "inbound_dm", ev.text))
                             snd == send_instagram_message(messages1, users1, ev.sender,
                                        response_message(ev.text, user.instagram_username),
                                        page, token, outcome)
                         IN  /\ users' = users1
                             /\ messages' = snd.messages
                             /\ outbox' = Append(outbox, snd.call)
                             /\ last' = Step("dm", "", 1, outcome, snd.raised)
                             /\ IF snd.raised # "" THEN Raise(snd.raised)
                                ELSE Advance(Len(payload[ei].messaging))
           /\ dmSeen' = [dmSeen EXCEPT ![ev.sender] = @ + 1]
    /\ visited' = visited \cup {<<ei, si>>}
    /\ UNCHANGED <<REEL_KEYWORDS, comments, payload, delivered, verify, workers>>

\* lines 368-392: a postback
Postback ==
    /\ InMessaging
    /\ LET ev == payload[ei].messaging[si]
           page == recipient_page_id(payload[ei]).page
       IN  /\ ev.sender # "" /\ ~IsInboundText(ev) /\ ev.postback # ""
           /\ \E outcome \in SendOutcomes :
                LET uid == find_user_by_psid(users, ev.sender)
                    users1 == IF uid = 0 THEN users
                              ELSE [users EXCEPT ![uid].last_interaction_at = ev.timestamp]
                    messages1 == Append(messages,
                        MessageRow(Len(messages) + 1, uid, "inbound_postback",
                                   <<"POSTBACK: ", ev.postback>>))
                    snd == send_instagram_message(messages1, users1, ev.sender,
                               postback_reply(ev.postback), page, token, outcome)
                IN  /\ users' = users1
                    /\ messages' = snd.messages
                    /\ outbox' = Append(outbox, snd.call)
                    /\ last' = Step("postback", "", 1, outcome, snd.raised)
                    /\ IF snd.raised # "" THEN Raise(snd.raised)
                       ELSE Advance(Len(payload[ei].messaging))
    /\ visited' = visited \cup {<<ei, si>>}
    /\ UNCHANGED <<REEL_KEYWORDS, comments, payload, dmSeen, delivered, verify, workers>>

\* neither branch of lines 325 / 368 applies (an echo, an event without text)
IgnoredMessaging ==
    /\ InMessaging
    /\ LET ev == payload[ei].messaging[si]
       IN  ev.sender # "" /\ ~IsInboundText(ev) /\ ev.postback = ""
    /\ visited' = visited \cup {<<ei, si>>}
    /\ last' = Step("messaging_ignored", "", 0, "", "")
    /\ Advance(Len(payload[ei].messaging))
    /\ UNCHANGED <<REEL_KEYWORDS, users, messages, comments, outbox, payload, dmSeen,
                   delivered, verify, workers>>

\* line 410
CommentComplete(ch) ==
    ch.id # "" /\ ch.text # <<>> /\ ch.from_id # "" /\ ch.media_id # ""

\* lines 401-472: a "comments" change
CommentChanged ==
    /\ InChanges
    /\ LET ch == payload[ei].changes[si]
           n == Len(payload[ei].changes)
       IN  /\ ch.field = "comments" /\ ch.has_value
           /\ \E outcome \in SendOutcomes :
                IF ch.created_time = 0
                THEN \* line 408: value.get("created_time") / 1000 on None
                     /\ outcome = "ok" /\ Raise("TypeError")
                     /\ last' = Step("comment_error", "", 0, "", "TypeError")
                     /\ UNCHANGED <<users, messages, comments, outbox>>
                ELSE IF ~CommentComplete(ch)
                THEN /\ outcome = "ok" /\ Advance(n)
                     /\ last' = Step("comment_skipped", "", 0, "", "")
                     /\ UNCHANGED <<users, messages, comments, outbox>>
                ELSE
                LET uid == find_user_by_instagram_id(users, ch.from_id)
                    sender_username == IF ch.has_username THEN ch.username ELSE <<>>
                    newRow == UserRow(Len(users) + 1, "", ch.from_id, sender_username,
                                      ch.created_time)
                IN  IF uid = 0 /\ ~UserInsertAllowed(users, newRow)
                    THEN /\ outcome = "ok" /\ Raise("IntegrityError")
                         /\ last' = Step("comment_error", "", 0, "", "IntegrityError")
                         /\ UNCHANGED <<users, messages, comments, outbox>>
                    ELSE
                    LET users1 == IF uid = 0 THEN Append(users, newRow)
                                  ELSE [users EXCEPT ![uid].last_interaction_at = ch.created_time,
                                                     ![uid].instagram_username = sender_username]
                        user == IF uid = 0 THEN newRow ELSE users1[uid]
                        new_comment == CommentRow(Len(comments) + 1, user.id, ch.id,
                                                  ch.media_id, ch.text)
                    IN  /\ users' = users1
                        /\ IF ~CommentInsertAllowed(comments, new_comment)
                           THEN \* line 438: the commit violates the unique comment_id
                                /\ outcome = "ok" /\ Raise("IntegrityError")
                                /\ last' = Step("comment_error", "", 0, "", "IntegrityError")
                                /\ UNCHANGED <<messages, comments, outbox>>
                           ELSE
                           LET rule == matched_reel_config(REEL_KEYWORDS, ch.media_id, ch.text)
                           IN  /\ comments' = Append(comments, new_comment)
                               /\ IF rule.key # "" /\ rule.private_reply_message # <<>>
                                  THEN IF check_if_user_follows_page(ch.from_id, token)
                                       THEN IF ~ch.has_username
                                            THEN \* line 463: replace("{username}", None)
                                                 /\ outcome = "ok" /\ Raise("TypeError")
                                                 /\ last' = Step("comment", rule.key, 0, "", "TypeError")
                                                 /\ UNCHANGED <<messages, outbox>>
                                            ELSE LET snd == send_instagram_private_reply_to_comment(
                                                         messages, ch.id,
                                                         replace(rule.private_reply_message,
                                                                 USERNAME_PLACEHOLDER, ch.username),
                                                         token, outcome)
                                                 IN  /\ messages' = snd.messages
                                                     /\ outbox' = Append(outbox, snd.call)
                                                     /\ last' = Step("comment", rule.key, 1, outcome, snd.raised)
                                                     /\ IF snd.raised # "" THEN Raise(snd.raised)
                                                        ELSE Advance(n)
                                       ELSE LET snd == send_instagram_private_reply_to_comment(
                                                    messages, ch.id,
                                                    non_follower_dm_message(ch.has_username, ch.username),
                                                    token, outcome)
                                            IN  /\ messages' = snd.messages
                                                /\ outbox' = Append(outbox, snd.call)
                                                /\ last' = Step("comment", rule.key, 1, outcome, snd.raised)
                                                /\ IF snd.raised # "" THEN Raise(snd.raised)
                                                   ELSE Advance(n)
                                  ELSE /\ outcome = "ok" /\ Advance(n)
                                       /\ last' = Step("comment", rule.key, 0, "", "")
                                       /\ UNCHANGED <<messages, outbox>>
    /\ visited' = visited \cup {<<ei, si>>}
    /\ UNCHANGED <<REEL_KEYWORDS, payload, dmSeen, delivered, verify, workers>>

\* lines 475-489: a "mentions" change is only logged; value["user"] of a
\* story, image or video mention without user raises KeyError
Mentioned ==
    /\ InChanges
    /\ LET ch == payload[ei].changes[si]
       IN  /\ ch.field = "mentions" /\ ch.has_value
           /\ IF ch.item_type \in {"STORY", "IMAGE", "VIDEO"} /\ ~ch.has_user
              THEN /\ Raise("KeyError")
                   /\ last' = Step("mention", "", 0, "", "KeyError")
              ELSE /\ Advance(Len(payload[ei].changes))
                   /\ last' = Step("mention", "", 0, "", "")
    /\ visited' = visited \cup {<<ei, si>>}
    /\ UNCHANGED <<REEL_KEYWORDS, users, messages, comments, outbox, payload, dmSeen,
                   delivered, verify, workers>>

\* a change without value, or of a field other than comments and mentions
IgnoredChange ==
    /\ InChanges
    /\ LET ch == payload[ei].changes[si]
       IN  ~ch.has_value \/ ch.field \notin {"comments", "mentions"}
    /\ visited' = visited \cup {<<ei, si>>}
    /\ last' = Step("change_ignored", "", 0, "", "")
    /\ Advance(Len(payload[ei].changes))
    /\ UNCHANGED <<REEL_KEYWORDS, users, messages, comments, outbox, payload, dmSeen,
                   delivered, verify, workers>>

Next ==
    \/ ReceiveWebhook
    \/ ResolveEntry
    \/ Respond
    \/ MessagingKeyError
    \/ InboundDM
    \/ Postback
    \/ IgnoredMessaging
    \/ CommentChanged
    \/ Mentioned
    \/ IgnoredChange

Spec == Init /\ [][Next]_vars

\* the GET route alone: it reads and writes nothing of the handler's state
NextVerify == VerifyWebhook

SpecVerify == Init /\ [][NextVerify]_vars

\* ------------------------------------------------- concurrent deliveries
\* Two workers run handle_webhook at the same time on the same database.
\* Every database statement of the find-or-create paths is a step of its
\* own: the SELECT of lines 332 / 415, the commit of lines 336 / 340 and
\* 424 / 426, the commit of lines 352 / 438, and the reply.  A delivery
\* carries one entry with one complete sub-event, so that the steps before
\* the SELECT touch nothing shared and are part of W_Receive.
RacingEntries ==
    { Entry("P1", <<DM_A_hi>>, <<>>),
      Entry("P1", <<>>, <<Cm_M1_link>>),
      Entry("", <<>>, <<Cm_M2_link>>) }

W_IsDM(w) == workers[w].entry.messaging # <<>>
W_Event(w) == workers[w].entry.messaging[1]
W_Change(w) == workers[w].entry.changes[1]
W_Page(w) == recipient_page_id(workers[w].entry).page
W_Token(w) == current_page_access_token(W_Page(w))

\* the worker's request is over: 200, or 500 with the exception e
W_Ends(w, status, e) ==
    workers' = [workers EXCEPT ![w].pc = "done", ![w].response = status, ![w].err = e]

W_Goes(w, to) ==
    workers' = [workers EXCEPT ![w].pc = to]

\* lines 280-316 and 320-330 / 395-412: the request arrives at a free worker
W_Receive(w) ==
    /\ workers[w].pc \in {"idle", "done"}
    /\ delivered < MaxEntries
    /\ \E entry \in RacingEntries :
          workers' = [workers EXCEPT ![w] =
              [pc |-> "find", entry |-> entry, user_id |-> 0, response |-> 0, err |-> ""]]
    /\ delivered' = delivered + 1
    /\ UNCHANGED <<REEL_KEYWORDS, users, messages, comments, outbox, payload, pc, ei,
                   si, token, response, err, visited, last, dmSeen, verify>>

\* lines 332 / 415: User.query.filter_by(...).first()
W_FindUser(w) ==
    /\ workers[w].pc = "find"
    /\ workers' = [workers EXCEPT ![w].pc = "save_user",
                      ![w].user_id = IF W_IsDM(w)
                                     THEN find_user_by_psid(users, W_Event(w).sender)
                                     ELSE find_user_by_instagram_id(users, W_Change(w).from_id)]
    /\ UNCHANGED <<REEL_KEYWORDS, users, messages, comments, outbox, payload, pc, ei,
                   si, token, response, err, visited, last, dmSeen, delivered, verify>>

\* lines 333-340 / 416-426: insert the new user or refresh the one found
W_SaveUser(w) ==
    /\ workers[w].pc = "save_user"
    /\ LET uid == workers[w].user_id
           newRow == IF W_IsDM(w)
                     THEN UserRow(Len(users) + 1, W_Event(w).sender, "", <<>>,
                                  W_Event(w).timestamp)
                     ELSE UserRow(Len(users) + 1, "", W_Change(w).from_id,
                                  W_Change(w).username, W_Change(w).created_time)
       IN  IF uid = 0
           THEN IF UserInsertAllowed(users, newRow)
                THEN /\ users' = Append(users, newRow)
                     /\ workers' = [workers EXCEPT ![w].pc = "log", ![w].user_id = newRow.id]
                ELSE \* db.session.commit() raises IntegrityError
                     /\ W_Ends(w, 500, "IntegrityError")
                     /\ UNCHANGED users
           ELSE /\ users' = IF W_IsDM(w)
                            THEN [users EXCEPT ![uid].last_interaction_at = W_Event(w).timestamp]
                            ELSE [users EXCEPT
                                     ![uid].last_interaction_at = W_Change(w).created_time,
                                     ![uid].instagram_username = W_Change(w).username]
                /\ W_Goes(w, "log")
    /\ UNCHANGED <<REEL_KEYWORDS, messages, comments, outbox, payload, pc, ei,
                   si, token, response, err, visited, last, dmSeen, delivered, verify>>

\* lines 343-352 / 429-438: log the inbound message or the comment
W_LogEvent(w) ==
    /\ workers[w].pc = "log"
    /\ IF W_IsDM(w)
       THEN /\ messages' = Append(messages,
                   MessageRow(Len(messages) + 1, workers[w].user_id, "inbound_dm",
                              W_Event(w).text))
            /\ W_Goes(w, "reply")
            /\ UNCHANGED comments
       ELSE LET new_comment == CommentRow(Len(comments) + 1, workers[w].user_id,
                                          W_Change(w).id, W_Change(w).media_id,
                                          W_Change(w).text)
            IN  /\ IF CommentInsertAllowed(comments, new_comment)
                   THEN comments' = Append(comments, new_comment) /\ W_Goes(w, "reply")
                   ELSE UNCHANGED comments /\ W_Ends(w, 500, "IntegrityError")
                /\ UNCHANGED messages
    /\ UNCHANGED <<REEL_KEYWORDS, users, outbox, payload, pc, ei,
                   si, token, response, err, visited, last, dmSeen, delivered, verify>>

\* lines 355-365 / 442-472, then line 492: the reply and the answer
W_Reply(w) ==
    /\ workers[w].pc = "reply"
    /\ \E outcome \in SendOutcomes :
          IF W_IsDM(w)
          THEN LET ev == W_Event(w)
                   snd == send_instagram_message(messages, users, ev.sender,
                              response_message(ev.text,
                                  users[workers[w].user_id].instagram_username),
                              W_Page(w), W_Token(w), outcome)
               IN  /\ messages' = snd.messages
                   /\ outbox' = Append(outbox, snd.call)
                   /\ IF snd.raised # "" THEN W_Ends(w, 500, snd.raised)
                      ELSE W_Ends(w, 200, "")
          ELSE LET ch == W_Change(w)
                   rule == matched_reel_config(REEL_KEYWORDS, ch.media_id, ch.text)
               IN  IF rule.key # "" /\ rule.private_reply_message # <<>>
                   THEN IF check_if_user_follows_page(ch.from_id, W_Token(w))
                           /\ ~ch.has_username
                        THEN \* line 463: replace("{username}", None)
                             /\ outcome = "ok" /\ W_Ends(w, 500, "TypeError")
                             /\ UNCHANGED <<messages, outbox>>
                        ELSE
                        LET snd == send_instagram_private_reply_to_comment(
                                       messages, ch.id,
                                       IF check_if_user_follows_page(ch.from_id, W_Token(w))
                                       THEN replace(rule.private_reply_message,
                                                    USERNAME_PLACEHOLDER, ch.username)
                                       ELSE non_follower_dm_message(ch.has_username, ch.username),
                                       W_Token(w), outcome)
                        IN  /\ messages' = snd.messages
                            /\ outbox' = Append(outbox, snd.call)
                            /\ IF snd.raised # "" THEN W_Ends(w, 500, snd.raised)
                               ELSE W_Ends(w, 200, "")
                   ELSE /\ outcome = "ok" /\ W_Ends(w, 200, "")
                        /\ UNCHANGED <<messages, outbox>>
    /\ UNCHANGED <<REEL_KEYWORDS, users, comments, payload, pc, ei,
                   si, token, response, err, visited, last, dmSeen, delivered, verify>>

NextConcurrent ==
    \/ \E w \in Workers : W_Receive(w)
    \/ \E w \in Workers : W_FindUser(w)
    \/ \E w \in Workers : W_SaveUser(w)
    \/ \E w \in Workers : W_LogEvent(w)
    \/ \E w \in Workers : W_Reply(w)

SpecConcurrent == Init /\ [][NextConcurrent]_vars

TypeOK ==
    /\ pc \in {"idle", "entry", "sub", "done"}
    /\ response \in {0, 200, 400, 500}
    /\ delivered \in 0..MaxEntries

\* ===================================================================
\* Properties
\* ===================================================================
Handled == pc = "done" /\ payload # <<>>

\* the entry has no page id, or its page id is the page of no account
Unresolvable(entry) ==
    LET r == recipient_page_id(entry)
    IN  r.page = "" \/ current_page_access_token(r.page) = ""

SubEvents(entry) ==
    IF entry.messaging # <<>> THEN entry.messaging ELSE entry.changes

\* the change the last step was about, when that step was a comment
LastChange == payload[last.ei].changes[last.si]

\* C1: a POST whose "entry" is a non-empty list is answered 200, whatever
\* happened while its entries were processed.
C1_AlwaysAcknowledged ==
    Handled => response = 200

\* C2: when the processing of an entry or of a sub-event fails, every later
\* entry of the payload and every later sub-event of the entry is still
\* processed.
C2_LaterOnesStillProcessed ==
    (Handled /\ err # "") =>
        /\ \A k \in (ei + 1)..Len(payload) : <<k, 0>> \in visited
        /\ si > 0 => \A j \in (si + 1)..Len(SubEvents(payload[ei])) : <<ei, j>> \in visited

\* C3: in a payload of several entries, an entry without a resolvable page id
\* or account writes no row and dispatches nothing, the other entries are
\* all processed, and the answer is 200.
C3_UnroutableEntrySkipped ==
    [][ /\ (pc = "entry" /\ ei <= Len(payload) /\ Len(payload) >= 2
              /\ Unresolvable(payload[ei]))
            => (users' = users /\ messages' = messages /\ comments' = comments
                /\ outbox' = outbox)
        /\ (pc' = "done" /\ Len(payload') >= 2
              /\ \E i \in 1..Len(payload') : Unresolvable(payload'[i]))
            => (response' = 200 /\ \A k \in 1..Len(payload') : <<k, 0>> \in visited')
      ]_vars

\* C4 as stated: a parameter that is not in the query string is answered
\* 400; otherwise the answer is 200 with the challenge as body iff mode is
\* "subscribe" and the token is VERIFY_TOKEN, and 403 in every other case.
C4_VerifyAsStated ==
    verify.status # 0 =>
        IF "ABSENT" \in {verify.mode, verify.token, verify.challenge}
        THEN verify.status = 400
        ELSE IF verify.mode = "subscribe" /\ verify.token = VERIFY_TOKEN
             THEN verify.status = 200 /\ verify.body = verify.challenge
             ELSE verify.status = 403

\* C4 amended: a parameter that is absent or empty is answered 400; when
\* all three are non-empty the answer is 200 with the challenge as body iff
\* mode is "subscribe" and the token is VERIFY_TOKEN, and 403 otherwise.
C4_VerifyAmended ==
    verify.status # 0 =>
        /\ verify.status \in {200, 400, 403}
        /\ verify.status = 400 <=>
              \E x \in {verify.mode, verify.token, verify.challenge} : x \in {"ABSENT", ""}
        /\ verify.status = 200 <=>
              /\ \A x \in {verify.mode, verify.token, verify.challenge} : x \notin {"ABSENT", ""}
              /\ verify.mode = "subscribe" /\ verify.token = VERIFY_TOKEN
        /\ verify.status = 200 => verify.body = verify.challenge

C4_Witness ==
    /\ verify.mode = "subscribe" /\ verify.token = VERIFY_TOKEN
    /\ verify.challenge = "" /\ verify.status = 400

\* the same letter, in either case
SameLetter(a, b) ==
    \/ a = b
    \/ \E k \in 1..Len(UPPER) : {a, b} = {UPPER[k], LOWER[k]}

\* sub occurs in s when the case of letters is ignored
ContainsIgnoringCase(sub, s) ==
    \E i \in 0..(Len(s) - Len(sub)) : \A j \in 1..Len(sub) : SameLetter(sub[j], s[i + j])

HasTemplate(key) ==
    key \in DOMAIN REEL_KEYWORDS /\ REEL_KEYWORDS[key].private_reply_message # <<>>

PrivateRepliesTo(comment_id) ==
    {k \in 1..Len(outbox) :
        outbox[k].api = "private_replies" /\ outbox[k].target = comment_id}

\* C5: a comment on a media that has a rule with a non-empty template gets
\* that rule, whatever its text; the default rule is never chosen over it.
C5_MediaRuleWins ==
    (last.kind = "comment" /\ HasTemplate(LastChange.media_id)) =>
        /\ last.matched = LastChange.media_id
        /\ last.sends = 1 =>
              outbox[Len(outbox)].text =
                  replace(REEL_KEYWORDS[LastChange.media_id].private_reply_message,
                          USERNAME_PLACEHOLDER, LastChange.username)

C5_Witness ==
    /\ last.kind = "comment" /\ HasTemplate(LastChange.media_id)
    /\ "DEFAULT_KEYWORDS" \in DOMAIN REEL_KEYWORDS
    /\ \E k \in 1..Len(REEL_KEYWORDS["DEFAULT_KEYWORDS"].keywords) :
          ContainsIgnoringCase(REEL_KEYWORDS["DEFAULT_KEYWORDS"].keywords[k], LastChange.text)
    /\ \A k \in 1..Len(REEL_KEYWORDS[LastChange.media_id].keywords) :
          ~ContainsIgnoringCase(REEL_KEYWORDS[LastChange.media_id].keywords[k], LastChange.text)
    /\ last.matched = LastChange.media_id /\ last.sends = 1

DefaultKeywordHit(text) ==
    /\ "DEFAULT_KEYWORDS" \in DOMAIN REEL_KEYWORDS
    /\ \E k \in 1..Len(REEL_KEYWORDS["DEFAULT_KEYWORDS"].keywords) :
          ContainsIgnoringCase(REEL_KEYWORDS["DEFAULT_KEYWORDS"].keywords[k], text)

\* C6: a comment on a media without a rule gets the default rule iff one of
\* the default keywords occurs in its text, case ignored; without such a
\* keyword, or without a default rule, the Comment row is there and no
\* private reply goes out.
C6_DefaultKeywordScan ==
    (last.kind = "comment" /\ LastChange.media_id \notin DOMAIN REEL_KEYWORDS) =>
        /\ last.matched = "DEFAULT_KEYWORDS" <=> DefaultKeywordHit(LastChange.text)
        /\ ~DefaultKeywordHit(LastChange.text) =>
              /\ last.matched = "" /\ last.sends = 0
              /\ PrivateRepliesTo(LastChange.id) = {}
              /\ \E i \in 1..Len(comments) :
                    /\ comments[i].comment_id = LastChange.id
                    /\ comments[i].comment_text = LastChange.text

\* a request in which a first comment matched a default keyword that differs
\* in case and was replied to, and the next one matched none
C6_Witness ==
    /\ last.kind = "comment" /\ LastChange.media_id \notin DOMAIN REEL_KEYWORDS
    /\ ~DefaultKeywordHit(LastChange.text) /\ last.matched = ""
    /\ \E i \in 1..Len(comments) : comments[i].comment_id = LastChange.id
    /\ \E k \in 1..Len(outbox) :
          /\ outbox[k].api = "private_replies" /\ outbox[k].text = Tpl_Default
          /\ outbox[k].outcome = "ok"

UsersWithPsid(p) == {i \in 1..Len(users) : users[i].psid = p}

\* C7: after n >= 1 inbound text DMs from one scoped id there is exactly one
\* User row with that scoped id and there are exactly n inbound_dm Message
\* rows, all of that user.
C7_FindOrCreateIdempotent ==
    \A p \in PSIDs :
        /\ dmSeen[p] >= 1 =>
              /\ Cardinality(UsersWithPsid(p)) = 1
              /\ \A u \in UsersWithPsid(p) :
                    Cardinality({m \in 1..Len(messages) :
                        /\ messages[m].message_type = "inbound_dm"
                        /\ messages[m].user_id = users[u].id}) = dmSeen[p]
        /\ dmSeen[p] = 0 =>
              \A m \in 1..Len(messages) : messages[m].message_type # "inbound_dm"

C7_Witness ==
    /\ dmSeen["A"] >= 2 /\ pc = "done" /\ response = 200
    /\ Cardinality(UsersWithPsid("A")) = 1

\* C8: a comment for which a rule with a non-empty template resolves gets
\* exactly one private reply, addressed to the comment id: the rendered
\* template when the follower gate says true, the follow request otherwise.
C8_ExactlyOneGatedReply ==
    (last.kind = "comment" /\ HasTemplate(last.matched)) =>
        /\ last.sends = 1
        /\ Cardinality(PrivateRepliesTo(LastChange.id)) = 1
        /\ \A k \in PrivateRepliesTo(LastChange.id) :
              outbox[k].text =
                  IF check_if_user_follows_page(LastChange.from_id, token)
                  THEN replace(REEL_KEYWORDS[last.matched].private_reply_message,
                               USERNAME_PLACEHOLDER, LastChange.username)
                  ELSE non_follower_dm_message(LastChange.has_username, LastChange.username)

\* C9: a "comments" change lacking the comment id, the text, the commenter
\* id or the media id is skipped silently: no User row is created or
\* updated, no Comment row written, nothing dispatched, no error raised,
\* and the loop goes on with the change after it.
C9_IncompleteCommentSkipped ==
    [][ (/\ InChanges
         /\ payload[ei].changes[si].field = "comments"
         /\ payload[ei].changes[si].has_value
         /\ ~CommentComplete(payload[ei].changes[si]))
        => /\ users' = users /\ messages' = messages /\ comments' = comments
           /\ outbox' = outbox
           /\ err' = "" /\ response' = 0
           /\ IF si < Len(payload[ei].changes)
              THEN pc' = "sub" /\ ei' = ei /\ si' = si + 1
              ELSE pc' = "entry" /\ ei' = ei + 1
      ]_vars

OutboundRows(msgs) ==
    {i \in 1..Len(msgs) : msgs[i].message_type \in {"outbound_dm", "private_reply_comment"}}

\* C10: a send that fails, with a non-2xx answer or with no answer at all,
\* returns without raising and writes no outbound Message row, and the
\* handler goes on with the next sub-event.
C10_FailedSendReturns ==
    [][ (/\ Len(outbox') = Len(outbox) + 1
         /\ outbox'[Len(outbox')].outcome \in {"http_error", "transport_error"})
        => /\ err' = "" /\ pc' \in {"sub", "entry"}
           /\ Cardinality(OutboundRows(messages')) = Cardinality(OutboundRows(messages))
      ]_vars

\* the rows of the comments table that carry this external comment id
CommentsWithId(comment_id) ==
    {i \in 1..Len(comments) : comments[i].comment_id = comment_id}

\* C11: no two Comment rows share a comment_id, after any sequence of
\* deliveries, the redelivery of a comment event included: there is at most
\* one Comment row for an external comment id.
C11_CommentIdUnique ==
    \A i, j \in 1..Len(comments) :
        comments[i].comment_id = comments[j].comment_id => i = j

\* a comment event was delivered again: its insert was refused and the row
\* of the first delivery is the only one
C11_Witness ==
    /\ last.kind = "comment_error" /\ last.raised = "IntegrityError"
    /\ err = "IntegrityError" /\ response = 500
    /\ Cardinality(CommentsWithId(LastChange.id)) = 1

\* the media of the comment has an entry in the rule table, and that entry
\* has no reply template
EntryWithoutTemplate(media_id) ==
    media_id \in DOMAIN REEL_KEYWORDS /\ ~HasTemplate(media_id)

\* C12 as stated: for a comment on a media whose rule-table entry has an
\* empty or missing template, that entry does not win and the default
\* keywords are scanned as if the entry were absent: a text with a default
\* keyword gets the default rule and its reply.
C12_FallsThroughAsStated ==
    (last.kind = "comment" /\ EntryWithoutTemplate(LastChange.media_id)) =>
        /\ last.matched = "DEFAULT_KEYWORDS" <=> DefaultKeywordHit(LastChange.text)
        /\ (DefaultKeywordHit(LastChange.text) /\ HasTemplate("DEFAULT_KEYWORDS")
              /\ LastChange.has_username) =>
              /\ last.sends = 1
              /\ outbox[Len(outbox)].text =
                    replace(REEL_KEYWORDS["DEFAULT_KEYWORDS"].private_reply_message,
                            USERNAME_PLACEHOLDER, LastChange.username)

\* C12 amended: for a comment on a media whose rule-table entry has an
\* empty or missing template, that entry is still the one resolved: the
\* default keywords are not scanned, the Comment row is written, no private
\* reply goes out and nothing is raised, whatever the text.
C12_EntryWithoutTemplateSilences ==
    (last.kind = "comment" /\ EntryWithoutTemplate(LastChange.media_id)) =>
        /\ last.matched = LastChange.media_id
        /\ last.sends = 0 /\ last.raised = ""
        /\ PrivateRepliesTo(LastChange.id) = {}
        /\ \E i \in 1..Len(comments) :
              /\ comments[i].comment_id = LastChange.id
              /\ comments[i].media_id = LastChange.media_id

\* such a comment, with a default keyword in its text and a default rule
\* that has a template, went without reply
C12_Witness ==
    /\ last.kind = "comment" /\ EntryWithoutTemplate(LastChange.media_id)
    /\ DefaultKeywordHit(LastChange.text) /\ HasTemplate("DEFAULT_KEYWORDS")
    /\ LastChange.has_username
    /\ last.matched = LastChange.media_id /\ last.sends = 0
    /\ PrivateRepliesTo(LastChange.id) = {}

\* the owning account of an entry by the stated priority: the id of the
\* entry; without it the recipient id of the first messaging sub-event;
\* for an entry without messaging the page_id of the first change
OwningPageId(entry) ==
    IF entry.id # "" THEN entry.id
    ELSE IF entry.messaging # <<>> THEN entry.messaging[1].recipient
    ELSE IF entry.changes # <<>> THEN entry.changes[1].page_id
    ELSE ""

\* tok is the access token of the account with that page id
IsTokenOf(tok, page) ==
    \E a \in 1..Len(INSTAGRAM_ACCOUNTS_CONFIG) :
        /\ INSTAGRAM_ACCOUNTS_CONFIG[a].page_id = page
        /\ INSTAGRAM_ACCOUNTS_CONFIG[a].page_access_token = tok

\* C13: the owning account of an entry is resolved by strict priority
\* (entry id, else first messaging recipient id, else first change's
\* page_id), and every reply for the entry is sent with the access token of
\* the account whose page_id is the resolved id; a DM goes out through the
\* endpoint of that page.
C13_OwningAccountPriority ==
    /\ pc = "sub" => IsTokenOf(token, OwningPageId(payload[ei]))
    /\ last.sends = 1 =>
          LET call == outbox[Len(outbox)]
              page == OwningPageId(payload[last.ei])
          IN  /\ IsTokenOf(call.access_token, page)
              /\ call.api = "messages" => call.target = page

\* a reply went out for an entry whose id is one account and whose first
\* messaging recipient is another account: it carries the token of the
\* entry id
C13_Witness ==
    /\ last.sends = 1
    /\ LET entry == payload[last.ei]
           call == outbox[Len(outbox)]
       IN  /\ entry.id # "" /\ entry.messaging # <<>>
           /\ entry.messaging[1].recipient # entry.id
           /\ current_page_access_token(entry.messaging[1].recipient) # ""
           /\ IsTokenOf(call.access_token, entry.id)
           /\ ~IsTokenOf(call.access_token, entry.messaging[1].recipient)
           /\ call.target = entry.id

\* the handler is at a postback whose sender has no User row
AtPostbackOfUnknownSender ==
    /\ InMessaging
    /\ LET ev == payload[ei].messaging[si]
       IN  /\ ev.sender # "" /\ ~IsInboundText(ev) /\ ev.postback # ""
           /\ UsersWithPsid(ev.sender) = {}

\* C14: a postback from a scoped id without User row creates no User row,
\* writes exactly one Message row, of type inbound_postback with a null
\* user_id, and dispatches one acknowledgement DM to the sender that echoes
\* the payload; no outbound_dm row is written, and when the send succeeds
\* nothing is raised and the handler goes on.
C14_PostbackOfUnknownSender ==
    [][ AtPostbackOfUnknownSender =>
          LET ev == payload[ei].messaging[si]
          IN  /\ users' = users
              /\ Len(messages') = Len(messages) + 1
              /\ \A k \in 1..Len(messages) : messages'[k] = messages[k]
              /\ messages'[Len(messages')].message_type = "inbound_postback"
              /\ messages'[Len(messages')].user_id = 0
              /\ messages'[Len(messages')].message_text = <<"POSTBACK: ", ev.postback>>
              /\ Len(outbox') = Len(outbox) + 1
              /\ outbox'[Len(outbox')].api = "messages"
              /\ outbox'[Len(outbox')].recipient = ev.sender
              /\ \E k \in 1..Len(outbox'[Len(outbox')].text) :
                    outbox'[Len(outbox')].text[k] = ev.postback
              /\ outbox'[Len(outbox')].outcome = "ok" =>
                    (err' = "" /\ response' = 0 /\ pc' \in {"sub", "entry"})
      ]_vars

\* the acknowledgement of such a postback was sent with success: the store
\* has no User row, one inbound_postback row without user and no
\* outbound_dm row
C14_Witness ==
    /\ last.kind = "postback" /\ last.sends = 1 /\ last.outcome = "ok"
    /\ users = <<>> /\ err = ""
    /\ Len(messages) = 1
    /\ messages[1].message_type = "inbound_postback" /\ messages[1].user_id = 0
    /\ outbox[Len(outbox)].recipient = payload[last.ei].messaging[last.si].sender
    /\ outbox[Len(outbox)].text = <<"You chose: ", "buy", ". How else can I assist?">>

\* C15: when deliveries for one unseen identity are handled at the same
\* time, both may find no user before either inserts, and still the store
\* never holds two User rows with the same scoped id or the same platform
\* user id: the later insert fails on the unique constraint.
C15_NoDuplicateUserUnderRace ==
    \A i, j \in 1..Len(users) :
        /\ (users[i].psid # "" /\ users[i].psid = users[j].psid) => i = j
        /\ (users[i].instagram_id # "" /\ users[i].instagram_id = users[j].instagram_id)
              => i = j

\* two workers handled a DM of the same sender at the same time and both
\* found no user: one inserted the row and went on, the insert of the other
\* was refused, and the sender has one row
C15_Witness ==
    \E w, v \in Workers :
        /\ w # v /\ W_IsDM(w) /\ W_IsDM(v)
        /\ W_Event(w).sender = W_Event(v).sender
        /\ workers[w].pc = "done" /\ workers[w].err = "IntegrityError"
        /\ workers[w].user_id = 0
        /\ workers[v].pc \in {"log", "reply", "done"} /\ workers[v].user_id # 0
        /\ Cardinality(UsersWithPsid(W_Event(w).sender)) = 1
====
